---- MODULE Spec2Model ----
(***************************************************************************)
(* extract_vba_source.py: the directory-stream parser vba_project_init     *)
(* (installed as VBA_Project.__init__) and the batch driver main with its  *)
(* generator get_source_paths.                                             *)
(*                                                                         *)
(* Spec      one call of vba_project_init on a byte buffer, for every      *)
(*           buffer of Inputs and both values of the relaxed flag.         *)
(* SpecMain  one run of main over a list of sources; each source that      *)
(*           holds a macro project calls vba_project_init as               *)
(*           extract_macros does (relaxed=True).                           *)
(*                                                                         *)
(* The parser is modelled from the decompressed buffer on (line 116), the   *)
(* point where the specification's parse_directory_stream(bytes, strict)   *)
(* starts.  Lines 108-110 obtain that buffer through decompress_stream, a   *)
(* name of oletools.olevba that the file does not import; like check_value *)
(* and VBA_Parser it is taken at its interface.                            *)
(*                                                                         *)
(* The name id_tmp of line 144 is bound nowhere: not as a local (lines 136 *)
(* and 140 assign id_temp), not as a module global, not as a builtin.      *)
(* Evaluating it raises NameError, so lines 145-417 are not reachable and  *)
(* have no action here.                                                    *)
(***************************************************************************)
EXTENDS Integers, Sequences, FiniteSets, TLC

VARIABLES
    \* ---- vba_project_init ----
    dir_stream,          \* the decompressed buffer (line 110)
    pos,                 \* BytesIO cursor of dir_stream
    relaxed,             \* self.relaxed (line 101)
    pc,                  \* position in vba_project_init
    outcome,             \* "running", or the exception that left the function
    errfield,            \* field name carried by UnexpectedDataError
    errors_logged,       \* number of log.error calls made so far
    projectsyskind_id,   \* line 118
    projectsyskind_size, \* line 120
    syskind,             \* self.syskind (line 122)
    id_temp,             \* lines 136, 140
    size_temp,           \* line 138
    value_temp,          \* line 139
    projectlcid_id,      \* line 144
    req,                 \* bytes asked of the most recent dir_stream.read
    got,                 \* bytes that read returned
    \* ---- main / get_source_paths ----
    sources,             \* args.sources
    recursive,           \* args.recursive
    srcIdx,              \* get_source_paths: index of the next element of sources
    globRest,            \* get_source_paths: entries of p.glob(...) not yet visited
    source,              \* main: the path the generator yielded last
    yielded,             \* every path yielded so far, with where it came from
    processed,           \* sources whose loop body ran to its end
    printed,             \* lines printed by main
    destDirs,            \* basenames whose directory exists under root
    exception,           \* exception that left main, "none" while running
    pcMain,              \* position in main
    outFiles,            \* files written below root, as paths relative to root
    \* ---- get_outputpath ----
    parent_dir,          \* argument parent_dir
    filename,            \* argument filename
    use_orig_extension,  \* argument use_orig_extension
    subdirs,             \* directories that exist below parent_dir
    vba_file,            \* the path get_outputpath returned
    pcOut                \* position in get_outputpath

parserVars == <<dir_stream, pos, relaxed, pc, outcome, errfield, errors_logged,
                projectsyskind_id, projectsyskind_size, syskind, id_temp,
                size_temp, value_temp, projectlcid_id, req, got>>
outVars == <<parent_dir, filename, use_orig_extension, subdirs, vba_file, pcOut>>
mainVars == <<sources, recursive, srcIdx, globRest, source, yielded, processed,
              printed, destDirs, exception, pcMain, outFiles, outVars>>
vars == <<parserVars, mainVars>>

\* -------------------------------------------------------------------------
\* Bounds of the model
\* -------------------------------------------------------------------------
\* buffers are cut at every length 0..MaxCut (and also taken whole)
MaxCut == 22
\* number of elements of args.sources
MaxSources == 2

\* -------------------------------------------------------------------------
\* Tags and expected values of the records
\* -------------------------------------------------------------------------
\* 0x0001
PROJECTSYSKIND_Id_Expected == 1
\* 0x0004
PROJECTSYSKIND_Size_Expected == 4
\* 0x004A
COMPAT_Id == 74
\* 0x000F
REFERENCE_Terminator == 15
\* 0x0016
REFERENCENAME_Id == 22

Unset == -1
Min(a, b) == IF a < b THEN a ELSE b

\* -------------------------------------------------------------------------
\* struct / BytesIO
\* -------------------------------------------------------------------------
\* little-endian value of a byte string
RECURSIVE LittleEndian(_)
LittleEndian(data) ==
    IF data = <<>> THEN 0 ELSE data[1] + 256 * LittleEndian(Tail(data))

\* struct.unpack("<H" | "<L", data): struct.error unless data has exactly the
\* width of the format, else the little-endian value
unpack_raises(width, data) == Len(data) # width
unpack(width, data) == LittleEndian(data)

\* a read that never comes up short: zero bytes past the end of the buffer
read_padded(n) ==
    [i \in 1..n |-> IF pos + i <= Len(dir_stream) THEN dir_stream[pos + i] ELSE 0]

\* dir_stream.read(n): the next n bytes, or as many as are left
read(n) == SubSeq(dir_stream, pos + 1, Min(pos + n, Len(dir_stream)))
tell_after_read(n) == Min(pos + n, Len(dir_stream))

\* -------------------------------------------------------------------------
\* leaving vba_project_init
\* -------------------------------------------------------------------------
\* an exception that does not leave the function
Raise_StaysInFunction(kind, field) ==
    /\ pc' = pc
    /\ outcome' = kind
    /\ errfield' = field

Raise(kind, field) ==
    /\ pc' = "done"
    /\ outcome' = kind
    /\ errfield' = field

Continue(next) ==
    /\ pc' = next
    /\ UNCHANGED <<outcome, errfield>>

\* VBA_Project.check_value(name, expected, value), then go on at next
check_value(name, expected, value, next) ==
    IF expected # value
    THEN IF relaxed
         THEN /\ errors_logged' = errors_logged + 1
              /\ Continue(next)
         ELSE /\ Raise("UnexpectedDataError", name)
              /\ UNCHANGED errors_logged
    ELSE /\ UNCHANGED errors_logged
         /\ Continue(next)

\* the cursor and the record of one dir_stream.read(n)
DoRead(n) ==
    /\ pos' = tell_after_read(n)
    /\ req' = n
    /\ got' = Len(read(n))

\* -------------------------------------------------------------------------
\* vba_project_init, statement by statement
\* -------------------------------------------------------------------------
PROJECTSYSKIND_Id ==
    /\ pc = "PROJECTSYSKIND_Id"
    /\ UNCHANGED mainVars
    /\ DoRead(2)
    /\ LET data == read(2)
           v == unpack(2, data) IN
       IF unpack_raises(2, data)
       THEN /\ Raise("struct.error", "")
            /\ UNCHANGED <<projectsyskind_id, errors_logged>>
       ELSE /\ projectsyskind_id' = v
            /\ check_value("PROJECTSYSKIND_Id", PROJECTSYSKIND_Id_Expected, v,
                           "PROJECTSYSKIND_Size")
    /\ UNCHANGED <<dir_stream, relaxed, projectsyskind_size, syskind, id_temp,
                   size_temp, value_temp, projectlcid_id>>

PROJECTSYSKIND_Size ==
    /\ pc = "PROJECTSYSKIND_Size"
    /\ UNCHANGED mainVars
    /\ DoRead(4)
    /\ LET data == read(4)
           v == unpack(4, data) IN
       IF unpack_raises(4, data)
       THEN /\ Raise("struct.error", "")
            /\ UNCHANGED <<projectsyskind_size, errors_logged>>
       ELSE /\ projectsyskind_size' = v
            /\ check_value("PROJECTSYSKIND_Size", PROJECTSYSKIND_Size_Expected, v,
                           "PROJECTSYSKIND_SysKind")
    /\ UNCHANGED <<dir_stream, relaxed, projectsyskind_id, syskind, id_temp,
                   size_temp, value_temp, projectlcid_id>>

\* keys of SYSKIND_NAME
SYSKIND_NAME == {0, 1, 2, 3}

PROJECTSYSKIND_SysKind ==
    /\ pc = "PROJECTSYSKIND_SysKind"
    /\ UNCHANGED mainVars
    /\ DoRead(4)
    /\ LET data == read(4)
           v == unpack(4, data) IN
       IF unpack_raises(4, data)
       THEN /\ Raise("struct.error", "")
            /\ UNCHANGED <<syskind, errors_logged>>
       ELSE /\ syskind' = v
            /\ errors_logged' = errors_logged + (IF v \notin SYSKIND_NAME THEN 1 ELSE 0)
            /\ Continue("ReadIdTemp")
    /\ UNCHANGED <<dir_stream, relaxed, projectsyskind_id, projectsyskind_size,
                   id_temp, size_temp, value_temp, projectlcid_id>>

\* line 136-137: id_temp = read u16; if id_temp == 0x004A: ...
ReadIdTemp ==
    /\ pc = "ReadIdTemp"
    /\ UNCHANGED mainVars
    /\ DoRead(2)
    /\ LET data == read(2)
           v == unpack(2, data) IN
       IF unpack_raises(2, data)
       THEN /\ Raise("struct.error", "")
            /\ UNCHANGED id_temp
       ELSE /\ id_temp' = v
            /\ Continue(IF v = COMPAT_Id THEN "ReadSizeTemp" ELSE "PROJECTLCID_Id")
    /\ UNCHANGED <<dir_stream, relaxed, errors_logged, projectsyskind_id,
                   projectsyskind_size, syskind, size_temp, value_temp,
                   projectlcid_id>>

\* line 138
ReadSizeTemp ==
    /\ pc = "ReadSizeTemp"
    /\ UNCHANGED mainVars
    /\ DoRead(4)
    /\ LET data == read(4)
           v == unpack(4, data) IN
       IF unpack_raises(4, data)
       THEN /\ Raise("struct.error", "")
            /\ UNCHANGED size_temp
       ELSE /\ size_temp' = v
            /\ Continue("ReadValueTemp")
    /\ UNCHANGED <<dir_stream, relaxed, errors_logged, projectsyskind_id,
                   projectsyskind_size, syskind, id_temp, value_temp,
                   projectlcid_id>>

\* line 139: struct.unpack("<L", dir_stream.read(size_temp))
ReadValueTemp ==
    /\ pc = "ReadValueTemp"
    /\ UNCHANGED mainVars
    /\ DoRead(size_temp)
    /\ LET data == read(size_temp)
           v == unpack(4, data) IN
       IF unpack_raises(4, data)
       THEN /\ Raise("struct.error", "")
            /\ UNCHANGED value_temp
       ELSE /\ value_temp' = v
            /\ Continue("RereadIdTemp")
    /\ UNCHANGED <<dir_stream, relaxed, errors_logged, projectsyskind_id,
                   projectsyskind_size, syskind, id_temp, size_temp,
                   projectlcid_id>>

\* line 140
RereadIdTemp ==
    /\ pc = "RereadIdTemp"
    /\ UNCHANGED mainVars
    /\ DoRead(2)
    /\ LET data == read(2)
           v == unpack(2, data) IN
       IF unpack_raises(2, data)
       THEN /\ Raise("struct.error", "")
            /\ UNCHANGED id_temp
       ELSE /\ id_temp' = v
            /\ Continue("PROJECTLCID_Id")
    /\ UNCHANGED <<dir_stream, relaxed, errors_logged, projectsyskind_id,
                   projectsyskind_size, syskind, size_temp, value_temp,
                   projectlcid_id>>

\* line 144: projectlcid_id = id_tmp.  The name id_tmp is not bound, the
\* assignment raises NameError and projectlcid_id is never set.
PROJECTLCID_Id ==
    /\ pc = "PROJECTLCID_Id"
    /\ UNCHANGED mainVars
    /\ Raise("NameError", "id_tmp")
    /\ UNCHANGED <<dir_stream, pos, relaxed, errors_logged, projectsyskind_id,
                   projectsyskind_size, syskind, id_temp, size_temp, value_temp,
                   projectlcid_id, req, got>>

Next ==
    \/ PROJECTSYSKIND_Id
    \/ PROJECTSYSKIND_Size
    \/ PROJECTSYSKIND_SysKind
    \/ ReadIdTemp
    \/ ReadSizeTemp
    \/ ReadValueTemp
    \/ RereadIdTemp
    \/ PROJECTLCID_Id

\* -------------------------------------------------------------------------
\* Directory streams given to vba_project_init
\* -------------------------------------------------------------------------
U16(v) == <<v % 256, (v \div 256) % 256>>
U32(v) == <<v % 256, (v \div 256) % 256, (v \div 65536) % 256, (v \div 16777216) % 256>>
Bytes(n) == [i \in 1..n |-> 65]

\* PROJECTSYSKIND record
SysKindRecord(id, size, kind) == U16(id) \o U32(size) \o U32(kind)
\* the optional record of tag 0x004A, declaring size bytes of payload
CompatRecord(size) == U16(COMPAT_Id) \o U32(size) \o Bytes(size)

\* PROJECTLCID .. PROJECTCONSTANTS with the project name and lib flags given,
\* every other field at its expected value, then the reference records
RestOfHeader(name, libflags) ==
    U16(2) \o U32(4) \o U32(1033)                       \* PROJECTLCID
    \o U16(20) \o U32(4) \o U32(1033)                   \* PROJECTLCIDINVOKE
    \o U16(3) \o U32(2) \o U16(1252)                    \* PROJECTCODEPAGE
    \o U16(4) \o U32(Len(name)) \o name                 \* PROJECTNAME
    \o U16(5) \o U32(0) \o U16(64) \o U32(0)            \* PROJECTDOCSTRING
    \o U16(6) \o U32(0) \o U16(61) \o U32(0)            \* PROJECTHELPFILEPATH
    \o U16(7) \o U32(4) \o U32(0)                       \* PROJECTHELPCONTEXT
    \o U16(8) \o U32(4) \o U32(libflags)                \* PROJECTLIBFLAGS
    \o U16(9) \o U32(4) \o U32(1) \o U16(0)             \* PROJECTVERSION
    \o U16(12) \o U32(0) \o U16(60) \o U32(0)           \* PROJECTCONSTANTS

OnlyTerminator == U16(REFERENCE_Terminator)
NameThenTerminator == U16(REFERENCENAME_Id) \o U32(2) \o Bytes(2) \o U16(REFERENCE_Terminator)
UnknownTag == U16(65535)

GoodSysKind == SysKindRecord(1, 4, 1)

\* syskind=1, both lcids 0x409, code page 1252, empty name, docstring and
\* constants, every tag, size and reserved field as expected, no reference
MinimalStream == GoodSysKind \o RestOfHeader(<<>>, 0) \o OnlyTerminator
\* MinimalStream with one Name record whose trailing field is the terminator
NameRecordStream == GoodSysKind \o RestOfHeader(<<>>, 0) \o NameThenTerminator
\* MinimalStream with the reference tag 0xFFFF
UnknownTagStream == GoodSysKind \o RestOfHeader(<<>>, 0) \o UnknownTag
\* MinimalStream with lib_flags = 1
LibFlagsStream == GoodSysKind \o RestOfHeader(<<>>, 1) \o OnlyTerminator
\* MinimalStream with a project name of 3 bytes
NamedStream == GoodSysKind \o RestOfHeader(Bytes(3), 0) \o OnlyTerminator
\* MinimalStream with the optional 0x004A record of 4 bytes before PROJECTLCID
CompatStream == GoodSysKind \o CompatRecord(4) \o RestOfHeader(<<>>, 0) \o OnlyTerminator

\* reference records, every reserved field at its expected value
\* REFERENCEORIGINAL, tag 0x0033
OriginalRecord == U16(51) \o U32(2) \o Bytes(2)
\* REFERENCECONTROL, tag 0x002F, without the optional name; reserved3 = 0x0030
ControlRecord ==
    U16(47) \o U32(12) \o U32(2) \o Bytes(2) \o U32(0) \o U16(0)
    \o U16(48) \o U32(32) \o U32(2) \o Bytes(2) \o U32(0) \o U16(0)
    \o Bytes(16) \o U32(7)
\* REFERENCEREGISTERED without its tag 0x000D
RegisteredBody == U32(12) \o U32(2) \o Bytes(2) \o U32(0) \o U16(0)
RegisteredRecord == U16(13) \o RegisteredBody
\* REFERENCEPROJECT, tag 0x000E
ProjectRecord ==
    U16(14) \o U32(18) \o U32(2) \o Bytes(2) \o U32(2) \o Bytes(2) \o U32(1) \o U16(0)
\* REFERENCENAME without the unicode part: the 2 bytes after the name are the
\* tag 0x000D of a REFERENCEREGISTERED record
NameThenRegistered == U16(REFERENCENAME_Id) \o U32(2) \o Bytes(2) \o RegisteredRecord

\* the header after PROJECTSYSKIND with the PROJECTLCID size field 5, not 4
RestOfHeaderLcidSize5 ==
    U16(2) \o U32(5) \o SubSeq(RestOfHeader(<<>>, 0), 7, Len(RestOfHeader(<<>>, 0)))

\* MinimalStream with a project name of 129 bytes
LongNameStream == GoodSysKind \o RestOfHeader(Bytes(129), 0) \o OnlyTerminator
\* MinimalStream with PROJECTLCID declaring size 5
LcidSizeStream == GoodSysKind \o RestOfHeaderLcidSize5 \o OnlyTerminator
\* MinimalStream with one Control record
ControlStream == GoodSysKind \o RestOfHeader(<<>>, 0) \o ControlRecord \o OnlyTerminator
\* MinimalStream with a Registered and then a Project record
RegisteredProjectStream ==
    GoodSysKind \o RestOfHeader(<<>>, 0) \o RegisteredRecord \o ProjectRecord \o OnlyTerminator
\* MinimalStream with a Name record running into a Registered record
AliasedNameStream ==
    GoodSysKind \o RestOfHeader(<<>>, 0) \o NameThenRegistered \o OnlyTerminator
\* MinimalStream with an Original record and nothing after it
OriginalStream == GoodSysKind \o RestOfHeader(<<>>, 0) \o OriginalRecord \o OnlyTerminator

Tails ==
    { RestOfHeader(<<>>, 0) \o OnlyTerminator,
      RestOfHeader(<<>>, 0) \o NameThenTerminator,
      RestOfHeader(<<>>, 0) \o UnknownTag,
      RestOfHeader(<<>>, 1) \o OnlyTerminator,
      RestOfHeader(Bytes(3), 0) \o OnlyTerminator,
      RestOfHeader(Bytes(129), 0) \o OnlyTerminator,
      RestOfHeaderLcidSize5 \o OnlyTerminator,
      RestOfHeader(<<>>, 0) \o ControlRecord \o OnlyTerminator,
      RestOfHeader(<<>>, 0) \o RegisteredRecord \o ProjectRecord \o OnlyTerminator,
      RestOfHeader(<<>>, 0) \o NameThenRegistered \o OnlyTerminator,
      RestOfHeader(<<>>, 0) \o OriginalRecord \o OnlyTerminator }

WholeStreams ==
    { SysKindRecord(id, size, kind) \o compat \o tail :
        id \in {1, 5}, size \in {4, 3}, kind \in {1, 7},
        compat \in {<<>>, CompatRecord(4), CompatRecord(6)},
        tail \in Tails }

Prefix(s, n) == SubSeq(s, 1, Min(n, Len(s)))

Inputs == WholeStreams \cup { Prefix(s, n) : s \in WholeStreams, n \in 0..MaxCut }

\* -------------------------------------------------------------------------
\* One call of vba_project_init
\* -------------------------------------------------------------------------
ParserEntry(stream, relaxedFlag) ==
    /\ dir_stream = stream
    /\ relaxed = relaxedFlag
    /\ pos = 0
    /\ pc = "PROJECTSYSKIND_Id"
    /\ outcome = "running"
    /\ errfield = ""
    /\ errors_logged = 0
    /\ projectsyskind_id = Unset
    /\ projectsyskind_size = Unset
    /\ syskind = Unset
    /\ id_temp = Unset
    /\ size_temp = Unset
    /\ value_temp = Unset
    /\ projectlcid_id = Unset
    /\ req = 0
    /\ got = 0

OutIdle ==
    /\ parent_dir = <<>>
    /\ filename = <<>>
    /\ use_orig_extension = FALSE
    /\ subdirs = {}
    /\ vba_file = <<>>
    /\ pcOut = "idle"

MainIdle ==
    /\ sources = <<>>
    /\ recursive = FALSE
    /\ srcIdx = 1
    /\ globRest = {}
    /\ source = <<>>
    /\ yielded = <<>>
    /\ processed = <<>>
    /\ printed = <<>>
    /\ destDirs = {}
    /\ exception = "none"
    /\ pcMain = "idle"
    /\ outFiles = {}

Init ==
    /\ \E stream \in Inputs, relaxedFlag \in BOOLEAN : ParserEntry(stream, relaxedFlag)
    /\ MainIdle
    /\ OutIdle

Spec == Init /\ [][Next]_vars

\* the call runs on: a statement that can be executed is executed
SpecFair == Spec /\ WF_vars(Next)

\* -------------------------------------------------------------------------
\* str and pathlib, on names written as sequences of characters
\* -------------------------------------------------------------------------
UpperCase == <<"A","B","C","D","E","F","G","H","I","J","K","L","M",
               "N","O","P","Q","R","S","T","U","V","W","X","Y","Z">>
LowerCase == <<"a","b","c","d","e","f","g","h","i","j","k","l","m",
               "n","o","p","q","r","s","t","u","v","w","x","y","z">>

\* str.lower()
lower(s) ==
    [i \in 1..Len(s) |->
        IF \E k \in 1..Len(UpperCase) : UpperCase[k] = s[i]
        THEN LowerCase[CHOOSE k \in 1..Len(UpperCase) : UpperCase[k] = s[i]]
        ELSE s[i]]

\* str.startswith(prefix)
startswith(s, prefix) ==
    /\ Len(s) >= Len(prefix)
    /\ SubSeq(s, 1, Len(prefix)) = prefix

\* str.rfind('.'), counting from 1; 0 when there is no dot
rfind_dot(s) ==
    IF \E i \in 1..Len(s) : s[i] = "."
    THEN CHOOSE i \in 1..Len(s) : s[i] = "." /\ \A j \in (i + 1)..Len(s) : s[j] # "."
    ELSE 0

\* PurePath.name, PurePath.suffix, PurePath.stem; a path is a sequence of names
name(path) == path[Len(path)]
suffix(path) ==
    LET n == name(path)
        i == rfind_dot(n) IN
    IF 1 < i /\ i < Len(n) THEN SubSeq(n, i, Len(n)) ELSE <<>>
stem(path) ==
    LET n == name(path)
        i == rfind_dot(n) IN
    IF 1 < i /\ i < Len(n) THEN SubSeq(n, 1, i - 1) ELSE n

\* Path.absolute(): the path below the working directory
WorkingDirectory == <<"w">>
absolute(path) == <<WorkingDirectory>> \o path

OFFICE_FILE_EXTENSIONS ==
    { <<".","x","l","s","b">>, <<".","x","l","s">>, <<".","x","l","s","m">>,
      <<".","x","l","a">>, <<".","x","l","t">>, <<".","x","l","a","m">>,
      <<".","p","p","t","m">> }

LockPrefix == <<"~","$">>

\* -------------------------------------------------------------------------
\* The file system main runs on
\* -------------------------------------------------------------------------
D_in == <<"i","n">>
D_sub == <<"s","u","b">>
F_a_xlsm == <<"a",".","x","l","s","m">>
F_lock == <<"~","$","a",".","x","l","s","m">>
F_B_XLS == <<"B",".","X","L","S">>
F_c_txt == <<"c",".","t","x","t">>
F_dot_xls == <<".","x","l","s">>
F_a_pptm == <<"a",".","p","p","t","m">>
F_e_doc == <<"e",".","d","o","c">>

Directories == { <<D_in>>, <<D_in, D_sub>> }
Files ==
    { <<D_in, F_a_xlsm>>, <<D_in, F_lock>>, <<D_in, F_B_XLS>>, <<D_in, F_c_txt>>,
      <<D_in, F_dot_xls>>, <<D_in, D_sub, F_a_pptm>>, <<D_in, D_sub, F_e_doc>> }

\* Path.is_dir()
is_dir(p) == p \in Directories

\* Path.glob("**/*") and Path.glob("*"): everything below p, or its children
glob(p, recursiveFlag) ==
    { e \in Directories \cup Files :
        /\ Len(e) > Len(p)
        /\ SubSeq(e, 1, Len(p)) = p
        /\ (recursiveFlag \/ Len(e) = Len(p) + 1) }

\* what VBA_Parser finds in a file: the dir stream of its macro project, or
\* no project, or a file it cannot open
MacroFiles == { <<D_in, F_a_xlsm>>, <<D_in, D_sub, F_a_pptm>> }
PlainOfficeFiles == { <<D_in, F_B_XLS>> }
DirStreamOf(p) == IF p = <<D_in, F_a_xlsm>> THEN MinimalStream ELSE CompatStream

\* the elements args.sources is drawn from
SourceArgs ==
    { <<D_in>>, <<D_in, D_sub>>, <<D_in, F_a_xlsm>>, <<D_in, F_B_XLS>>,
      <<D_in, F_c_txt>>, <<D_in, F_lock>> }

\* -------------------------------------------------------------------------
\* get_source_paths
\* -------------------------------------------------------------------------
\* line 37 without the test of the lock-file prefix
get_source_paths_keeps_NoLockTest(f) ==
    lower(suffix(f)) \in OFFICE_FILE_EXTENSIONS

\* line 37: the condition under which an entry of a directory is yielded
get_source_paths_keeps(f) ==
    /\ ~startswith(name(f), LockPrefix)
    /\ lower(suffix(f)) \in OFFICE_FILE_EXTENSIONS

\* yield: the generator hands path to the loop of main
Yield(path, fromDir) ==
    /\ source' = path
    /\ yielded' = Append(yielded, [path |-> path, fromDir |-> fromDir])
    /\ pcMain' = "body"

\* lines 32-34, 39-40: the next element of sources; the end of the generator
\* ends the loop of main
get_source_paths_src ==
    /\ pcMain = "generator"
    /\ globRest = {}
    /\ IF srcIdx > Len(sources)
       THEN /\ pcMain' = "finished"
            /\ UNCHANGED <<srcIdx, globRest, source, yielded>>
       ELSE LET p == sources[srcIdx] IN
            /\ srcIdx' = srcIdx + 1
            /\ IF is_dir(p)
               THEN /\ globRest' = glob(p, recursive)
                    /\ UNCHANGED <<source, yielded, pcMain>>
               ELSE /\ Yield(absolute(p), FALSE)
                    /\ UNCHANGED globRest
    /\ UNCHANGED <<sources, recursive, processed, printed, destDirs, exception,
                   outFiles>>
    /\ UNCHANGED outVars
    /\ UNCHANGED parserVars

\* lines 35-38: the next entry of the directory, in any order
get_source_paths_glob ==
    /\ pcMain = "generator"
    /\ globRest # {}
    /\ \E f \in globRest :
        /\ globRest' = globRest \ {f}
        /\ IF get_source_paths_keeps(f)
           THEN Yield(absolute(f), TRUE)
           ELSE UNCHANGED <<source, yielded, pcMain>>
    /\ UNCHANGED <<sources, recursive, srcIdx, processed, printed, destDirs, exception,
                   outFiles>>
    /\ UNCHANGED outVars
    /\ UNCHANGED parserVars

\* -------------------------------------------------------------------------
\* get_outputpath
\* -------------------------------------------------------------------------
K_class == <<"c","l","a","s","s">>
K_form == <<"f","o","r","m">>
K_module == <<"m","o","d","u","l","e">>
E_cls == <<"c","l","s">>
E_frm == <<"f","r","m">>
E_vb == <<".","v","b">>

\* filename.split('.')[-1]: the text after the last dot, the whole name when
\* it has no dot
split_last(s) ==
    LET i == rfind_dot(s) IN
    IF i = 0 THEN s ELSE SubSeq(s, i + 1, Len(s))

\* lines 44-50: the directory chosen for the file
get_outputpath_subdir(parent, fname) ==
    IF split_last(fname) = E_cls THEN parent \o <<K_class>>
    ELSE IF split_last(fname) = E_frm THEN parent \o <<K_form>>
    ELSE parent \o <<K_module>>

\* project.parse_modules(): the module file names of a macro project, in the
\* order they are yielded (line 434)
ModulesOf(file) ==
    IF file \in MacroFiles
    THEN << <<"a",".","c","l","s">>, <<"c",".","b","a","s">> >>
    ELSE <<>>

\* lines 450-451, 458: the path, relative to root, of the file main writes for
\* module fname of the source at path (use_orig_extension at its default)
OutputFile(path, fname) ==
    get_outputpath_subdir(<<stem(path)>>, fname) \o <<fname \o E_vb>>

\* lines 457-459: the files main writes for the source at path
OutputOf(path) ==
    LET mods == ModulesOf(SubSeq(path, 2, Len(path))) IN
    { OutputFile(path, mods[i]) : i \in 1..Len(mods) }

\* line 460: the lines main prints for the source at path
GeneratedLines(path) ==
    LET mods == ModulesOf(SubSeq(path, 2, Len(path))) IN
    [i \in 1..Len(mods) |-> <<"is generated", OutputFile(path, mods[i])>>]

\* -------------------------------------------------------------------------
\* main
\* -------------------------------------------------------------------------
\* the state in which extract_macros calls VBA_Project(..., relaxed=True)
EnterParser(stream) ==
    /\ dir_stream' = stream
    /\ relaxed' = TRUE
    /\ pos' = 0
    /\ pc' = "PROJECTSYSKIND_Id"
    /\ outcome' = "running"
    /\ errfield' = ""
    /\ errors_logged' = 0
    /\ projectsyskind_id' = Unset
    /\ projectsyskind_size' = Unset
    /\ syskind' = Unset
    /\ id_temp' = Unset
    /\ size_temp' = Unset
    /\ value_temp' = Unset
    /\ projectlcid_id' = Unset
    /\ req' = 0
    /\ got' = 0

\* lines 449-458: the loop body up to the first macro project of the source.
\* dest.mkdir followed by rmtree(dest) leaves no directory of that basename
\* and no file below it.
main_body ==
    /\ pcMain = "body"
    /\ LET file == SubSeq(source, 2, Len(source))
           basename == stem(source) IN
       /\ destDirs' = destDirs \ {basename}
       /\ outFiles' = {f \in outFiles : f[1] # basename}
       /\ printed' = Append(printed, <<"Extract vba files from", source>>)
       /\ IF file \in MacroFiles
          THEN /\ EnterParser(DirStreamOf(file))
               /\ pcMain' = "vba_project_init"
               /\ UNCHANGED <<processed, exception>>
          ELSE IF file \in PlainOfficeFiles
          THEN /\ processed' = Append(processed, source)
               /\ pcMain' = "generator"
               /\ UNCHANGED exception
               /\ UNCHANGED parserVars
          ELSE /\ exception' = "FileOpenError"
               /\ pcMain' = "crashed"
               /\ UNCHANGED processed
               /\ UNCHANGED parserVars
    /\ UNCHANGED <<sources, recursive, srcIdx, globRest, source, yielded>>
    /\ UNCHANGED outVars

\* lines 430, 457-460: what follows the call of vba_project_init.  An
\* exception that leaves it is caught neither in extract_macros nor in main,
\* and ends main; after a return each module of the source is written to the
\* path get_outputpath gives and reported
main_raise ==
    /\ pcMain = "vba_project_init"
    /\ pc = "done"
    /\ IF outcome = "returned"
       THEN /\ outFiles' = outFiles \cup OutputOf(source)
            /\ destDirs' = destDirs \cup {stem(source)}
            /\ printed' = printed \o GeneratedLines(source)
            /\ processed' = Append(processed, source)
            /\ pcMain' = "generator"
            /\ UNCHANGED exception
       ELSE /\ exception' = outcome
            /\ pcMain' = "crashed"
            /\ UNCHANGED <<outFiles, destDirs, printed, processed>>
    /\ UNCHANGED <<sources, recursive, srcIdx, globRest, source, yielded>>
    /\ UNCHANGED outVars
    /\ UNCHANGED parserVars

ParserIdle ==
    /\ dir_stream = <<>>
    /\ relaxed = TRUE
    /\ pos = 0
    /\ pc = "idle"
    /\ outcome = "running"
    /\ errfield = ""
    /\ errors_logged = 0
    /\ projectsyskind_id = Unset
    /\ projectsyskind_size = Unset
    /\ syskind = Unset
    /\ id_temp = Unset
    /\ size_temp = Unset
    /\ value_temp = Unset
    /\ projectlcid_id = Unset
    /\ req = 0
    /\ got = 0

SourceLists == UNION { [1..n -> SourceArgs] : n \in 1..MaxSources }

InitMain ==
    /\ ParserIdle
    /\ sources \in SourceLists
    /\ recursive \in BOOLEAN
    /\ srcIdx = 1
    /\ globRest = {}
    /\ source = <<>>
    /\ yielded = <<>>
    /\ processed = <<>>
    /\ printed = <<>>
    /\ destDirs = {}
    /\ exception = "none"
    /\ pcMain = "generator"
    /\ outFiles = {}
    /\ OutIdle

NextMain ==
    \/ get_source_paths_src
    \/ get_source_paths_glob
    \/ main_body
    \/ main_raise
    \/ PROJECTSYSKIND_Id
    \/ PROJECTSYSKIND_Size
    \/ PROJECTSYSKIND_SysKind
    \/ ReadIdTemp
    \/ ReadSizeTemp
    \/ ReadValueTemp
    \/ RereadIdTemp
    \/ PROJECTLCID_Id

SpecMain == InitMain /\ [][NextMain]_vars

\* -------------------------------------------------------------------------
\* get_outputpath called on its own
\* -------------------------------------------------------------------------
\* lines 43-54
get_outputpath ==
    /\ pcOut = "call"
    /\ LET subdir == get_outputpath_subdir(parent_dir, filename) IN
       /\ subdirs' = subdirs \cup {subdir}
       /\ vba_file' = subdir \o <<filename \o (IF ~use_orig_extension THEN E_vb ELSE <<>>)>>
    /\ pcOut' = "returned"
    /\ UNCHANGED <<parent_dir, filename, use_orig_extension>>
    /\ UNCHANGED <<sources, recursive, srcIdx, globRest, source, yielded, processed,
                   printed, destDirs, exception, pcMain, outFiles>>
    /\ UNCHANGED parserVars

\* module file names handed to get_outputpath
ModuleNames ==
    { <<"a",".","c","l","s">>, <<"b",".","f","r","m">>, <<"c",".","b","a","s">>,
      <<"d">>, <<"c","l","s">>, <<"f","r","m">>, <<"a",".","b",".","c","l","s">>,
      <<"a",".","C","L","S">>, <<"a",".","c","l","s",".","b","a","k">>,
      <<"a",".","f","r","m","x">> }
\* dest = root/basename
ParentDirs == { <<<<"v">>, <<"a">>>>, <<<<"v">>, <<"B">>>> }

InitOutputPath ==
    /\ ParserIdle
    /\ MainIdle
    /\ parent_dir \in ParentDirs
    /\ filename \in ModuleNames
    /\ use_orig_extension \in BOOLEAN
    /\ subdirs \in {{}, {parent_dir \o <<K_module>>}}
    /\ vba_file = <<>>
    /\ pcOut = "call"

NextOutputPath == get_outputpath

SpecOutputPath == InitOutputPath /\ [][NextOutputPath]_vars

\* =========================================================================
\* Properties
\* =========================================================================
\* vba_project_init has ended, by return or by exception
ParseEnded == pc = "done"

\* C1: parsing the minimal well-formed stream completes without error and with
\* no diagnostic.  (The function keeps no list of references; that no reference
\* record was parsed is part of ending by return right after the terminator.)
C1_MinimalStreamParses ==
    (ParseEnded /\ dir_stream = MinimalStream)
        => (outcome = "returned" /\ errors_logged = 0)

\* C2: a Name record whose trailing field is the terminator tag ends the
\* reference loop without error.
C2_NameThenTerminatorEndsLoop ==
    (ParseEnded /\ dir_stream = NameRecordStream) => outcome = "returned"

\* C3: a reference tag outside 0x0F, 0x16, 0x33, 0x2F, 0x0D, 0x0E ends the
\* parse with the unknown-reference-tag error, in strict and in relaxed mode.
C3_UnknownTagIsFatal ==
    (ParseEnded /\ dir_stream = UnknownTagStream)
        => (outcome = "UnexpectedDataError" /\ errfield = "reference type")

\* C4: a read that finds fewer bytes than it asks for ends the parse at that
\* read; no read returns fewer bytes and lets the parse go on.
C4_NoSilentShortRead ==
    got < req => (ParseEnded /\ outcome = "struct.error")

\* C5: in relaxed mode a stream whose only deviation is lib_flags # 0 is parsed
\* to the terminator and leaves exactly one diagnostic.
C5_RelaxedLibFlagsOneDiagnostic ==
    (ParseEnded /\ relaxed /\ dir_stream = LibFlagsStream)
        => (outcome = "returned" /\ errors_logged = 1)

\* C6: in strict mode the first checked field that differs from its expected
\* value ends the parse with UnexpectedFieldValue naming that field; here the
\* only such field of the stream is lib_flags.
C6_StrictFirstMismatchNamed ==
    (ParseEnded /\ ~relaxed /\ dir_stream = LibFlagsStream)
        => (outcome = "UnexpectedDataError"
            /\ errfield = "PROJECTLIBFLAGS_ProjectLibFlags")

\* offset just past the PROJECTNAME record of NamedStream: the records before
\* it, its tag and size, and its 3 bytes of payload
EndOfNameRecord ==
    Len(GoodSysKind \o U16(2) \o U32(4) \o U32(1033) \o U16(20) \o U32(4) \o U32(1033)
        \o U16(3) \o U32(2) \o U16(1252) \o U16(4) \o U32(3) \o Bytes(3))

\* C7: the project-name step consumes tag, size and the declared payload for
\* every declared size; on a stream with a 3-byte name the cursor gets past
\* the name record.
C7_NamePayloadConsumed ==
    (ParseEnded /\ dir_stream = NamedStream) => pos >= EndOfNameRecord

\* every read of lines 118-140 returned what struct.unpack needs and no
\* checked value ended the parse
HeaderReadThroughLine140 ==
    ParseEnded /\ outcome \notin {"struct.error", "UnexpectedDataError"}

\* C8: once the optional 0x004A record is dealt with, the tag read last is
\* used as the locale-id tag and parsing proceeds to the locale-id size field.
C8_LastTagBecomesLcidTag ==
    HeaderReadThroughLine140 => (projectlcid_id = id_temp /\ outcome # "NameError")

\* C9: a parse failure in one file does not stop the batch: when main ends,
\* every element of sources and every entry of its directories has been
\* handed to the loop, also those after a file whose parse failed.
C9_BatchSurvivesParseFailure ==
    (pcMain \in {"finished", "crashed"} /\ exception # "FileOpenError")
        => (srcIdx > Len(sources) /\ globRest = {})

\* the two tests of the allow-list and of the lock-file prefix, on a path
AllowedSuffixAndNoLock(path) ==
    /\ lower(suffix(path)) \in OFFICE_FILE_EXTENSIONS
    /\ SubSeq(name(path), 1, 2) # LockPrefix

\* C10 as stated: every yielded path, from a directory or from a single file,
\* has an allowed lower-cased suffix and no lock-file prefix.
C10_EveryYieldedPathFiltered ==
    \A i \in 1..Len(yielded) : AllowedSuffixAndNoLock(yielded[i].path)

\* C10 amended: a path yielded for a directory element has an allowed
\* lower-cased suffix and no lock-file prefix; an element that is not a
\* directory is yielded as its absolute path, untested.
C10_DirectoryEntriesFiltered ==
    \A i \in 1..Len(yielded) :
        IF yielded[i].fromDir
        THEN AllowedSuffixAndNoLock(yielded[i].path)
        ELSE \E k \in 1..Len(sources) :
                /\ ~is_dir(sources[k])
                /\ yielded[i].path = absolute(sources[k])

\* the directory "in" has been listed past its lock file, its entry with the
\* upper-case suffix has been yielded, and a single-file source was yielded too
C10_Witness ==
    /\ \E i \in 1..Len(yielded) :
          /\ yielded[i].fromDir
          /\ name(yielded[i].path) = F_B_XLS
    /\ \E i \in 1..Len(yielded) : ~yielded[i].fromDir
    /\ srcIdx > 1
    /\ sources[srcIdx - 1] = <<D_in>>
    /\ <<D_in, F_lock>> \notin globRest

\* the declared extension of a module name: the text from its last dot on,
\* nothing when the name has no dot
DeclaredExtension(fname) ==
    LET i == rfind_dot(fname) IN
    IF i = 0 THEN <<>> ELSE SubSeq(fname, i, Len(fname))

\* C11: get_outputpath returns parent_dir/<kind>/<filename><suffix>, kind being
\* class exactly for the declared extension .cls, form exactly for .frm and
\* module for every other name, also one without extension; suffix is .vb
\* unless use_orig_extension.
C11_KindByDeclaredExtension ==
    pcOut = "returned" =>
        vba_file = parent_dir
            \o << IF DeclaredExtension(filename) = <<".">> \o E_cls THEN K_class
                  ELSE IF DeclaredExtension(filename) = <<".">> \o E_frm THEN K_form
                  ELSE K_module >>
            \o << filename \o (IF use_orig_extension THEN <<>> ELSE E_vb) >>

\* the call returned normally with the cursor at the end of the buffer
ReturnedAtEnd == outcome = "returned" /\ pos = Len(dir_stream)

\* C12: a declared length beyond its documented bound is not fatal in either
\* mode: with a project name of 129 bytes the parse records the diagnostic,
\* consumes the 129 bytes and goes on to the end of the stream.
C12_OversizeIsOnlyADiagnostic ==
    (ParseEnded /\ dir_stream = LongNameStream)
        => (ReturnedAtEnd /\ errors_logged = 1)

\* C14: a fixed-width record consumes its fixed width whatever size it
\* declares; in relaxed mode PROJECTLCID declaring size 5 adds one diagnostic
\* and the parse still ends right after the terminator.
C14_FixedWidthIgnoresDeclaredSize ==
    (ParseEnded /\ relaxed /\ dir_stream = LcidSizeStream)
        => (ReturnedAtEnd /\ errors_logged = 1)

\* C15: a Control record whose optional field is reserved3 itself is consumed
\* field by field up to its cookie, and the next tag read is the terminator.
C15_ControlRecordConsumed ==
    (ParseEnded /\ dir_stream = ControlStream) => ReturnedAtEnd

\* C16: a successful parse returns one reference entry per record of the
\* stream, in stream order; a stream with a Registered and a Project record is
\* parsed successfully.
C16_OneEntryPerRecord ==
    (ParseEnded /\ dir_stream = RegisteredProjectStream)
        => (outcome = "returned" /\ pos >= Len(dir_stream) - Len(OnlyTerminator))

\* C17: the 2 bytes after a name that are not 0x003E are dispatched as the tag
\* of the next record, with no tag read in between: a Name record running
\* into a Registered record is parsed to the terminator.
C17_TrailingFieldIsNextTag ==
    (ParseEnded /\ dir_stream = AliasedNameStream)
        => (ReturnedAtEnd /\ errfield = "")

\* streams that conform to the record grammar
ConformingStreams ==
    { MinimalStream, NamedStream, CompatStream, ControlStream,
      RegisteredProjectStream, OriginalStream }

\* C18: on grammar-conforming input the cursor never desynchronizes: the parse
\* completes with the cursor right after the terminator tag.
C18_CursorEndsAfterTerminator ==
    (ParseEnded /\ dir_stream \in ConformingStreams) => ReturnedAtEnd

\* C19: an Original record is accepted whatever follows it, here the
\* terminator.
C19_OriginalAloneAccepted ==
    (ParseEnded /\ dir_stream = OriginalStream) => outcome = "returned"

\* the three ways a parse may end: completed without diagnostic, completed
\* with diagnostics in relaxed mode, or a fatal error
FatalErrors == {"struct.error", "UnexpectedDataError", "NameError"}
OneOfThreeOutcomes ==
    \/ outcome \in FatalErrors
    \/ outcome = "returned" /\ errors_logged = 0
    \/ outcome = "returned" /\ errors_logged > 0 /\ relaxed

PayloadStart == Len(GoodSysKind) + Len(U16(COMPAT_Id)) + Len(U32(0))

\* the read of line 139 asked for size_temp bytes and the buffer held fewer
PayloadCutShort ==
    /\ size_temp # Unset
    /\ pc # "ReadValueTemp"
    /\ Len(dir_stream) < PayloadStart + size_temp

\* C21: a parse never completes on a buffer that ends inside a declared-size
\* payload: once a payload read has come up short the parse does not get
\* past the next fixed-width read and ends with struct.error, in strict and
\* in relaxed mode.
C21_TruncatedPayloadEndsInError ==
    PayloadCutShort
        => (pc # "PROJECTLCID_Id" /\ (ParseEnded => outcome = "struct.error"))

\* a payload read that came up short went unnoticed at line 139 (the 4 bytes
\* it returned unpack) and the parse then ended at the read of line 140
C21_Witness ==
    /\ ParseEnded
    /\ PayloadCutShort
    /\ value_temp # Unset
    /\ outcome = "struct.error"

\* the sources handed to the loop body of main that hold a macro project
YieldedMacroSources ==
    { yielded[i].path : i \in { k \in 1..Len(yielded) :
                                  SubSeq(yielded[k].path, 2, Len(yielded[k].path))
                                      \in MacroFiles } }

\* C22: after the batch has ended, the output directory of every source that
\* main took up still holds the module files extracted from that source.
C22_OutputsOfEverySourceKept ==
    pcMain \in {"finished", "crashed"}
        => \A path \in YieldedMacroSources : OutputOf(path) \subseteq outFiles

====
